---------------------------- MODULE Spec2Model ----------------------------
(***************************************************************************)
(* Model of src/art/script.js: the ArtGallery page controller.             *)
(*                                                                         *)
(* script.js holds two declarations of class ArtGallery: lines 1-160 (the  *)
(* static descriptor "metadata.json" variant) and lines 162-566 (the       *)
(* directory listing / filename probing / embedded tag variant).  The      *)
(* variable decl records which declaration a page instance runs; both are  *)
(* modelled.                                                               *)
(*                                                                         *)
(* Strings the code computes with (file names, titles, EXIF date strings)  *)
(* are sequences of one-character strings, so that the regular-expression  *)
(* rewrites of the code are computed character by character.               *)
(***************************************************************************)
EXTENDS Integers, Sequences, FiniteSets, TLC

(***************************************************************************)
(* Bounds of the model.                                                    *)
(***************************************************************************)
\* entries of the directory listing the remote API can return
MaxFiles == 3
\* candidate names of commonPatterns that are probed (a prefix of the list)
MaxProbes == 2
\* length of the strings generateTitle is exercised on in SpecTitle
MaxLen == 3

(***************************************************************************)
(* Characters and string helpers (JavaScript String / RegExp semantics).   *)
(***************************************************************************)
Lower == <<"a","b","c","d","e","f","g","h","i","j","k","l","m",
           "n","o","p","q","r","s","t","u","v","w","x","y","z">>
Upper == <<"A","B","C","D","E","F","G","H","I","J","K","L","M",
           "N","O","P","Q","R","S","T","U","V","W","X","Y","Z">>
Digits == <<"0","1","2","3","4","5","6","7","8","9">>

Range(s) == { s[i] : i \in DOMAIN s }

IndexIn(c, s) == IF c \in Range(s) THEN CHOOSE i \in DOMAIN s : s[i] = c ELSE 0

IsLower(c) == c \in Range(Lower)
IsUpper(c) == c \in Range(Upper)
IsDigit(c) == c \in Range(Digits)
\* the regular-expression class \w
IsWordChar(c) == IsLower(c) \/ IsUpper(c) \/ IsDigit(c) \/ c = "_"

\* String.prototype.toUpperCase / toLowerCase on one character
ToUpperChar(c) == IF IsLower(c) THEN Upper[IndexIn(c, Lower)] ELSE c
ToLowerChar(c) == IF IsUpper(c) THEN Lower[IndexIn(c, Upper)] ELSE c
ToLowerCase(s) == [i \in DOMAIN s |-> ToLowerChar(s[i])]

\* s.lastIndexOf(c), 1-based; 0 when c does not occur (JavaScript: -1)
LastIndexOf(s, c) ==
    IF c \in Range(s) THEN CHOOSE i \in DOMAIN s :
                              s[i] = c /\ \A j \in DOMAIN s : s[j] = c => j <= i
    ELSE 0

\* s.replace(/x/g, y) for one-character x and y
ReplaceAllChar(s, x, y) == [i \in DOMAIN s |-> IF s[i] = x THEN y ELSE s[i]]

(***************************************************************************)
(* generateTitle (lines 363-369): three chained global replaces.           *)
(***************************************************************************)
\* .replace(/[-_]/g, ' ')
DashesToSpaces(s) == [i \in DOMAIN s |-> IF s[i] \in {"-", "_"} THEN " " ELSE s[i]]

\* .replace(/\b\w/g, l => l.toUpperCase()): a word character at a word
\* boundary, i.e. at the start of the string or after a non-word character
AtWordStart(s, i) == IsWordChar(s[i]) /\ (i = 1 \/ ~IsWordChar(s[i-1]))
CapitalizeWords(s) == [i \in DOMAIN s |-> IF AtWordStart(s, i) THEN ToUpperChar(s[i]) ELSE s[i]]

\* .replace(/\d+/g, match => `#${match}`): '#' before every maximal digit run
RECURSIVE HashFrom(_, _)
HashFrom(s, i) ==
    IF i > Len(s) THEN <<>>
    ELSE IF IsDigit(s[i]) /\ (i = 1 \/ ~IsDigit(s[i-1]))
         THEN <<"#", s[i]>> \o HashFrom(s, i + 1)
         ELSE <<s[i]>> \o HashFrom(s, i + 1)
HashNumbers(s) == HashFrom(s, 1)

\* generateTitle with the first two replaces in the other order
generateTitleCapitalizeFirst(filename) ==
    HashNumbers(DashesToSpaces(CapitalizeWords(filename)))

generateTitle(filename) == HashNumbers(CapitalizeWords(DashesToSpaces(filename)))


(***************************************************************************)
(* File names: extension filter (lines 207-211) and extension stripping    *)
(* (lines 242, 255, 394).                                                  *)
(***************************************************************************)
imageExtensions == { <<".","j","p","g">>, <<".","j","p","e","g">>, <<".","p","n","g">>,
                     <<".","g","i","f">>, <<".","w","e","b","p">> }

\* name.toLowerCase().substring(name.lastIndexOf('.')); lastIndexOf gives -1
\* when there is no dot and substring(-1) is the whole string
ExtensionOf(name) ==
    LET low == ToLowerCase(name)
        i   == LastIndexOf(low, ".")
    IN  IF i = 0 THEN low ELSE SubSeq(low, i, Len(low))

IsImageFile(name) == ExtensionOf(name) \in imageExtensions

\* name.replace(/\.[^/.]+$/, ""): drop a last dot followed by one or more
\* characters other than '/' and '.', up to the end of the string
StripExtension(name) ==
    LET i == LastIndexOf(name, ".")
    IN  IF i > 0 /\ i < Len(name) /\ \A j \in (i+1)..Len(name) : name[j] # "/"
        THEN SubSeq(name, 1, i - 1)
        ELSE name

(***************************************************************************)
(* Dates.  A Date object is a time value or the invalid date (time value   *)
(* NaN); a dateObj field can also hold null.  Time values are counted in   *)
(* days (372 per year, 31 per month), which keeps their order.             *)
(***************************************************************************)
NullDate == [kind |-> "null", t |-> 0]
InvalidDate == [kind |-> "invalid", t |-> 0]
TimeValue(n) == [kind |-> "time", t |-> n]

IsValidDate(d) == d.kind = "time"

DigitVal(c) == IndexIn(c, Digits) - 1
AllDigits(s) == \A i \in DOMAIN s : IsDigit(s[i])
RECURSIVE NumberOf(_)
NumberOf(s) == IF s = <<>> THEN 0
               ELSE 10 * NumberOf(SubSeq(s, 1, Len(s) - 1)) + DigitVal(s[Len(s)])

\* the ISO form YYYY-MM-DD that Date.parse is required to accept
IsIsoDate(s) ==
    /\ Len(s) = 10
    /\ s[5] = "-" /\ s[8] = "-"
    /\ AllDigits(SubSeq(s, 1, 4)) /\ AllDigits(SubSeq(s, 6, 7)) /\ AllDigits(SubSeq(s, 9, 10))
    /\ NumberOf(SubSeq(s, 6, 7)) \in 1..12
    /\ NumberOf(SubSeq(s, 9, 10)) \in 1..31

IsoDays(s) == 372 * NumberOf(SubSeq(s, 1, 4)) + 31 * NumberOf(SubSeq(s, 6, 7))
              + NumberOf(SubSeq(s, 9, 10))

\* new Date(string).  A string in the ISO form has a required result.  For any
\* other string the result is implementation-defined: an engine with a lenient
\* fallback parser reads "YYYY-MM-DD <anything>" as that day, a strict one
\* gives the invalid date.  Anything else is the invalid date.
DateParse(s, lenient) ==
    IF IsIsoDate(s) THEN TimeValue(IsoDays(s))
    ELSE IF lenient /\ Len(s) > 11 /\ IsIsoDate(SubSeq(s, 1, 10)) /\ s[11] = " "
         THEN TimeValue(IsoDays(SubSeq(s, 1, 10)))
         ELSE InvalidDate

\* dateTaken.replace(/:/g, '-').replace(/-(\d{2}:\d{2}:\d{2})/, ' $1')
\* (line 306).  After the first replace no ':' is left, so the pattern of the
\* second replace, which needs two of them, matches nowhere.
HasColonTime(s, i) ==
    /\ i + 8 <= Len(s)
    /\ s[i] = "-"
    /\ IsDigit(s[i+1]) /\ IsDigit(s[i+2]) /\ s[i+3] = ":"
    /\ IsDigit(s[i+4]) /\ IsDigit(s[i+5]) /\ s[i+6] = ":"
    /\ IsDigit(s[i+7]) /\ IsDigit(s[i+8])
DashBeforeTimeToSpace(s) ==
    IF \E i \in DOMAIN s : HasColonTime(s, i)
    THEN LET i == CHOOSE k \in DOMAIN s :
                     HasColonTime(s, k) /\ \A j \in 1..(k-1) : ~HasColonTime(s, j)
         IN  [k \in DOMAIN s |-> IF k = i THEN " " ELSE s[k]]
    ELSE s
ExifDateString(dateTaken) == DashBeforeTimeToSpace(ReplaceAllChar(dateTaken, ":", "-"))

(***************************************************************************)
(* Titles and String.prototype.localeCompare.  A missing title is the      *)
(* value undefined; as the argument of localeCompare it is converted to    *)
(* the string "undefined".                                                 *)
(***************************************************************************)
Undefined == <<"<undefined>">>
UndefinedAsString == <<"u","n","d","e","f","i","n","e","d">>
IsString(v) == v # Undefined
\* JavaScript truthiness of a title: undefined and "" are falsy
TruthyTitle(v) == v # Undefined /\ v # <<>>

\* collation: space and punctuation before digits before letters; letters are
\* first compared without case, lower case before upper case breaks ties
Primary(c) ==
    IF IsLower(c) THEN 100 + IndexIn(c, Lower)
    ELSE IF IsUpper(c) THEN 100 + IndexIn(c, Upper)
    ELSE IF IsDigit(c) THEN 50 + IndexIn(c, Digits)
    ELSE IF c = " " THEN 1
    ELSE IF c = "#" THEN 2
    ELSE 3
Tertiary(c) == IF IsUpper(c) THEN 1 ELSE 0

\* the collation key of a character at a comparison level
CollationKey(level, c) == IF level = "primary" THEN Primary(c) ELSE Tertiary(c)

RECURSIVE CompareAtLevel(_, _, _, _)
CompareAtLevel(level, a, b, i) ==
    IF i > Len(a) /\ i > Len(b) THEN 0
    ELSE IF i > Len(a) THEN -1
    ELSE IF i > Len(b) THEN 1
    ELSE IF CollationKey(level, a[i]) < CollationKey(level, b[i]) THEN -1
    ELSE IF CollationKey(level, a[i]) > CollationKey(level, b[i]) THEN 1
    ELSE CompareAtLevel(level, a, b, i + 1)

\* a.localeCompare(b) for a string a
localeCompare(a, b) ==
    LET bs == IF b = Undefined THEN UndefinedAsString ELSE b
        p  == CompareAtLevel("primary", a, bs, 1)
    IN  IF p # 0 THEN p ELSE CompareAtLevel("tertiary", a, bs, 1)

(***************************************************************************)
(* Sorting (Array.prototype.sort, lines 436-444).                          *)
(***************************************************************************)
\* the number a dateObj becomes in "b.dateObj - a.dateObj": null is 0; the
\* invalid date is NaN and has no number
DateNumber(d) == IF d.kind = "time" THEN d.t ELSE 0

\* (a, b) => b.dateObj - a.dateObj, as the sign sort sees: NaN counts as 0
compareDate(a, b) ==
    IF a.dateObj.kind = "invalid" \/ b.dateObj.kind = "invalid" THEN 0
    ELSE IF DateNumber(b.dateObj) < DateNumber(a.dateObj) THEN -1
    ELSE IF DateNumber(b.dateObj) > DateNumber(a.dateObj) THEN 1
    ELSE 0

\* (a, b) => a.title.localeCompare(b.title).  It throws when a.title is
\* undefined (sortOutcomes); in a sort that did not throw, no record without
\* title was passed as a, and such a record is ordered as the string
\* "undefined" that localeCompare makes of it as b
compareName(a, b) ==
    localeCompare(IF IsString(a.title) THEN a.title ELSE UndefinedAsString, b.title)

\* the comparator sortImages passes to sort
comparator(sortType, a, b) ==
    IF sortType = "date" THEN compareDate(a, b) ELSE compareName(a, b)

\* stable insertion of x into the sorted sequence s
RECURSIVE InsertSorted(_, _, _)
InsertSorted(sortType, s, x) ==
    IF s = <<>> THEN <<x>>
    ELSE IF comparator(sortType, s[Len(s)], x) <= 0 THEN Append(s, x)
    ELSE Append(InsertSorted(sortType, SubSeq(s, 1, Len(s) - 1), x), s[Len(s)])

\* the stable sort the language requires for a consistent comparator
RECURSIVE StableSort(_, _)
StableSort(sortType, s) ==
    IF s = <<>> THEN <<>>
    ELSE InsertSorted(sortType, StableSort(sortType, SubSeq(s, 1, Len(s) - 1)), s[Len(s)])

ArrayPermutations(s) ==
    { [i \in DOMAIN s |-> s[f[i]]] :
        f \in { g \in [DOMAIN s -> DOMAIN s] : \A i, j \in DOMAIN s : i # j => g[i] # g[j] } }

\* The outcomes of this.images.sort(comparator) in sortImages: the array after
\* the call and whether the comparator threw.
\*  - date: with an invalid date among records that differ in date the
\*    comparator is not consistent and the order is implementation-defined;
\*  - name: the comparator throws a TypeError when the record it gets as a has
\*    no title; which record that is depends on the engine; a throw leaves the
\*    array as it was.
sortOutcomes(imgs, sortType) ==
    IF sortType = "date"
    THEN IF /\ \E i \in DOMAIN imgs : imgs[i].dateObj.kind = "invalid"
            /\ \E i, j \in DOMAIN imgs : compareDate(imgs[i], imgs[j]) # 0
         THEN { [order |-> q, threw |-> FALSE] : q \in ArrayPermutations(imgs) }
         ELSE { [order |-> StableSort("date", imgs), threw |-> FALSE] }
    ELSE IF sortType = "name"
    THEN IF Len(imgs) < 2 \/ \A i \in DOMAIN imgs : IsString(imgs[i].title)
         THEN { [order |-> StableSort("name", imgs), threw |-> FALSE] }
         ELSE { [order |-> imgs, threw |-> TRUE] }
              \cup (IF \A i \in DOMAIN imgs : ~IsString(imgs[i].title) THEN {}
                    ELSE { [order |-> StableSort("name", imgs), threw |-> FALSE] })
    ELSE { [order |-> imgs, threw |-> FALSE] }

(***************************************************************************)
(* Rendering (renderGallery, lines 446-482; formatDate, lines 484-490).    *)
(***************************************************************************)
\* date.toLocaleDateString(...) throws a TypeError for null; the invalid date
\* formats as "Invalid Date"
formatDateThrows(d) == d.kind = "null"

\* index of the first record whose card cannot be built, 0 when there is none
FirstThrowing(imgs) ==
    IF \E i \in DOMAIN imgs : formatDateThrows(imgs[i].dateObj)
    THEN CHOOSE i \in DOMAIN imgs :
            /\ formatDateThrows(imgs[i].dateObj)
            /\ \A j \in 1..(i-1) : ~formatDateThrows(imgs[j].dateObj)
    ELSE 0

\* renderGallery without the early return for an empty collection
renderGalleryNoEmptyCase(imgs, dom) ==
    LET k == FirstThrowing(imgs)
    IN  IF k = 0
        THEN [cards |-> [i \in DOMAIN imgs |-> imgs[i].filename],
              gallery |-> IF imgs = <<>> THEN "empty" ELSE "cards",
              loadingText |-> dom.loadingText, loadingHidden |-> TRUE, threw |-> FALSE]
        ELSE [cards |-> [i \in 1..(k-1) |-> imgs[i].filename],
              gallery |-> IF k = 1 THEN "empty" ELSE "cards",
              loadingText |-> dom.loadingText, loadingHidden |-> dom.loadingHidden,
              threw |-> TRUE]

\* the DOM after renderGallery() on imgs, and whether it threw
renderGallery(imgs, dom) ==
    IF imgs = <<>>
    THEN [cards |-> <<>>, gallery |-> "empty", loadingText |-> "noArtwork",
          loadingHidden |-> dom.loadingHidden, threw |-> FALSE]
    ELSE LET k == FirstThrowing(imgs)
         IN  IF k = 0
             THEN [cards |-> [i \in DOMAIN imgs |-> imgs[i].filename], gallery |-> "cards",
                   loadingText |-> dom.loadingText, loadingHidden |-> TRUE, threw |-> FALSE]
             ELSE [cards |-> [i \in 1..(k-1) |-> imgs[i].filename],
                   gallery |-> IF k = 1 THEN "empty" ELSE "cards",
                   loadingText |-> dom.loadingText, loadingHidden |-> dom.loadingHidden,
                   threw |-> TRUE]


(***************************************************************************)
(* The environment: what the server holds and what the tag reader finds.   *)
(***************************************************************************)
Str_a1jpg == <<"a","1",".","j","p","g">>
Str_notes == <<"n","o","t","e","s",".","t","x","t">>
Str_myart == <<"m","y","_","a","r","t","-","0","2",".","P","N","G">>
Str_bgif  == <<"b",".","g","i","f">>
Str_cpng  == <<"c",".","p","n","g">>
Str_sha   == <<"7","c","2","5","8","a","9">>
Str_Dawn  == <<"D","a","w","n">>
Str_zebra == <<"z","e","b","r","a">>
Str_Jan   == <<"2","0","2","4","-","0","1","-","0","1">>
Str_Jun   == <<"2","0","2","4","-","0","6","-","0","1">>
Str_ExifJan == <<"2","0","2","4",":","0","1",":","0","1"," ","0","9",":","3","0",":","0","0">>
Str_ExifJun == <<"2","0","2","4",":","0","6",":","0","1"," ","1","2",":","0","0",":","0","0">>

\* entries the directory-listing API can return, in the order it lists them:
\* a name and a sha (<<>> when the entry has none)
FileUniverse ==
    << [name |-> Str_a1jpg, sha |-> Str_sha],
       [name |-> Str_notes, sha |-> Str_sha],
       [name |-> Str_myart, sha |-> <<>>],
       [name |-> Str_bgif,  sha |-> Str_sha] >>

Listings == { SubSeq(FileUniverse, 1, n) : n \in 0..(IF MaxFiles < 4 THEN MaxFiles ELSE 4) }

\* entries of metadata.json: a filename, a date string in the ISO form and,
\* optionally, a title (Undefined when the entry has none)
DescriptorUniverse ==
    << [filename |-> Str_a1jpg, title |-> Str_Dawn,  date |-> Str_Jan],
       [filename |-> Str_bgif,  title |-> Str_zebra, date |-> Str_Jun],
       [filename |-> Str_cpng,  title |-> Undefined, date |-> Str_Jan],
       [filename |-> Str_myart, title |-> Str_Dawn,  date |-> Str_Jun] >>

NoEntries == SubSeq(DescriptorUniverse, 1, 0)
Descriptors ==
    { [status |-> "absent", entries |-> NoEntries],
      [status |-> "malformed", entries |-> NoEntries] }
    \cup { [status |-> "ok", entries |-> SubSeq(DescriptorUniverse, 1, n)] :
             n \in 0..(IF MaxFiles < 4 THEN MaxFiles ELSE 4) }

\* the embedded tags of an image: the first present date tag and the first
\* present title tag (<<>> / Undefined when there is none)
TagSets ==
    { [date |-> <<>>,        title |-> Undefined],
      [date |-> Str_ExifJun, title |-> Undefined],
      [date |-> Str_ExifJan, title |-> Str_zebra],
      [date |-> <<>>,        title |-> Str_Dawn] }

\* commonPatterns (lines 373-378): 20 candidate names
PatternStem(k) ==
    IF k <= 10 THEN <<"c","h","a","r","a","c","t","e","r">>
    ELSE IF k <= 15 THEN <<"a","r","t">>
    ELSE <<"d","r","a","w","i","n","g">>
PatternExt(k) == IF k \in 6..10 THEN <<".","p","n","g">> ELSE <<".","j","p","g">>
AllPatterns == [k \in 1..20 |-> PatternStem(k) \o <<Digits[((k - 1) % 5) + 2]>> \o PatternExt(k)]
\* the candidates the model probes: the first MaxProbes of them
commonPatterns == SubSeq(AllPatterns, 1, IF MaxProbes < 20 THEN MaxProbes ELSE 20)

\* the clock reading when the page starts: some day after every date above
Now0 == 754000

(***************************************************************************)
(* State.                                                                  *)
(***************************************************************************)
VARIABLES
    decl,          \* which declaration of ArtGallery runs: 1 or 2
    lenient,       \* the engine's Date.parse accepts non-ISO date strings
    descriptor,    \* ../metadata.json as the server holds it
    pc,            \* where init() stands
    requests,      \* the requests issued so far, in order
    exif,          \* window.EXIF is defined
    scripts,       \* script elements injected by loadExifLibrary
    files,         \* the descriptors of the load pass (imageFiles / commonPatterns)
    slot,          \* per descriptor: the state of its image load and extraction
    probe,         \* loadImagesFallback: index of the candidate being probed
    clock,         \* Date.now()
    images,        \* this.images
    currentSort,   \* this.currentSort
    cards,         \* filenames of the cards in #gallery, in DOM order
    gallery,       \* content of #gallery: "empty", "cards" or "instructions"
    loadingText,   \* text of #loading: "loading" or "noArtwork"
    loadingHidden, \* #loading has display none
    rendered,      \* renderGallery has been called
    listeners,     \* setupEventListeners has run
    modalDisplay,  \* #modal style.display: "", "block" or "none"
    bodyOverflow,  \* document.body.style.overflow: "", "hidden" or "auto"
    lastEvent,     \* the last user event dispatched
    titleIn,       \* argument of a call of generateTitle
    titleOut,      \* its result, Undefined before the call
    titleCalls     \* how often it has been called (at most twice)

envVars   == <<decl, lenient, descriptor>>
loadVars  == <<pc, requests, exif, scripts, files, slot, probe, clock>>
modelVars == <<images, currentSort>>
domVars   == <<cards, gallery, loadingText, loadingHidden, rendered, listeners>>
modalVars == <<modalDisplay, bodyOverflow, lastEvent>>
titleVars == <<titleIn, titleOut, titleCalls>>
galleryVars == <<envVars, loadVars, modelVars, domVars, modalVars>>
vars == <<galleryVars, titleVars>>

NoRecord == [filename |-> <<>>, title |-> Undefined, dateObj |-> NullDate]
\* st: "idle", "loading", "waitLib", "waitCb", "resolved", "dropped", "stuck",
\*     "hung" (the image fires neither onload nor onerror)
\* extract: the promise of extractImageMetadata: "none", "pending",
\*          "empty" (resolved with {}), "tags" (resolved with tags), "rejected"
\* fault: what the tag reader did wrong: "none", "getDataThrew",
\*        "callbackThrew", "callbackDropped"
FreshSlot(st) == [st |-> st, extract |-> "none", fault |-> "none", rec |-> NoRecord]

\* The state after the constructor's assignments.  The second declaration
\* never reads the descriptor file, so for it two descriptor files stand for
\* all: an absent one and a well-formed one.
Init ==
    /\ decl \in {1, 2}
    /\ lenient \in BOOLEAN
    /\ descriptor \in Descriptors
    /\ decl = 2 => descriptor.status = "absent" \/ Len(descriptor.entries) = 2
    /\ pc = "start"
    /\ requests = <<>>
    /\ exif = FALSE
    /\ scripts = 0
    /\ files = SubSeq(FileUniverse, 1, 0)
    /\ slot = <<>>
    /\ probe = 0
    /\ clock = Now0
    /\ images = <<>>
    /\ currentSort = "date"
    /\ cards = <<>>
    /\ gallery = "empty"
    /\ loadingText = "loading"
    /\ loadingHidden = FALSE
    /\ rendered = FALSE
    /\ listeners = FALSE
    /\ modalDisplay = ""
    /\ bodyOverflow = ""
    /\ lastEvent = "none"
    /\ titleIn = <<>>
    /\ titleOut = Undefined
    /\ titleCalls = 0


(***************************************************************************)
(* Building a record from extracted metadata.                              *)
(***************************************************************************)
\* {} : the metadata object with no own property
EmptyMetadata == [k \in {} |-> Undefined]

\* the metadata object the getData callback builds (lines 294-311)
TagMetadata(tags) ==
    [dateObj |-> IF tags.date = <<>> THEN NullDate
                 ELSE DateParse(ExifDateString(tags.date), lenient),
     title   |-> tags.title]

HasOwn(metadata, k) == k \in DOMAIN metadata
TruthyDate(metadata) == HasOwn(metadata, "dateObj") /\ metadata.dateObj.kind # "null"
TruthyMetaTitle(metadata) == HasOwn(metadata, "title") /\ TruthyTitle(metadata.title)

\* { ...base, ...metadata }: own properties of metadata win
SpreadOver(base, metadata) ==
    [k \in DOMAIN base |-> IF HasOwn(metadata, k) THEN metadata[k] ELSE base[k]]

\* the object literal of lines 240-250 and 392-399: the defaults are computed
\* first and "...metadata" is spread last
MakeRecord(name, metadata, defaultDate) ==
    SpreadOver([filename |-> name,
                title    |-> IF TruthyMetaTitle(metadata) THEN metadata.title
                             ELSE generateTitle(StripExtension(name)),
                dateObj  |-> IF TruthyDate(metadata) THEN metadata.dateObj
                             ELSE defaultDate],
               metadata)

\* the record of the catch branch, lines 253-259
CatchRecord(name) ==
    [filename |-> name, title |-> generateTitle(StripExtension(name)),
     dateObj |-> TimeValue(clock)]

\* new Date(file.sha || Date.now()) in loadImageWithMetadata, new Date() in
\* loadImagesFallback
ReadsClock(file) == pc = "probing" \/ file.sha = <<>>
DefaultDate(file) ==
    IF ReadsClock(file) THEN TimeValue(clock) ELSE DateParse(file.sha, lenient)

\* extractImageMetadata resolved with metadata: the caller builds its record
ResolveWith(i, metadata, kind) ==
    /\ slot' = [slot EXCEPT ![i] = [st |-> "resolved", extract |-> kind, fault |-> @.fault,
                                    rec |-> MakeRecord(files[i].name, metadata,
                                                       DefaultDate(files[i]))]]
    /\ clock' = IF ~TruthyDate(metadata) /\ ReadsClock(files[i]) THEN clock + 1 ELSE clock

\* window.EXIF.getData(img, callback), lines 290-341: it schedules the
\* callback, throws, or returns without ever running the callback
GetDataOutcomes == { "scheduled", "throws", "dropped" }
CallGetData(i, outcome) ==
    IF outcome = "scheduled"
    THEN /\ slot' = [slot EXCEPT ![i].st = "waitCb", ![i].extract = "pending"]
         /\ UNCHANGED clock
    ELSE IF outcome = "dropped"
    THEN /\ slot' = [slot EXCEPT ![i].st = "stuck", ![i].extract = "pending",
                                 ![i].fault = "callbackDropped"]
         /\ UNCHANGED clock
    ELSE IF pc = "loading"
    \* loadImageWithMetadata catches the rejection (lines 251-260)
    THEN /\ slot' = [slot EXCEPT ![i] = [st |-> "resolved", extract |-> "rejected",
                                         fault |-> "getDataThrew",
                                         rec |-> CatchRecord(files[i].name)]]
         /\ clock' = clock + 1
    \* the onload handler of loadImagesFallback does not (lines 388-401)
    ELSE /\ slot' = [slot EXCEPT ![i].st = "stuck", ![i].extract = "rejected",
                                 ![i].fault = "getDataThrew"]
         /\ UNCHANGED clock

\* the promise executor of extractImageMetadata, lines 283-342
RunExecutor(i, exifNow, outcome) ==
    IF exifNow THEN CallGetData(i, outcome)
    ELSE ResolveWith(i, EmptyMetadata, "empty")

Loading == pc \in {"loading", "probing"}

(***************************************************************************)
(* Declaration 1 (lines 1-160): the static descriptor file.                *)
(***************************************************************************)
\* constructor, init, loadMetadata up to the fetch (lines 2-16)
Start1 ==
    /\ decl = 1 /\ pc = "start"
    /\ requests' = Append(requests, "descriptor")
    /\ pc' = "descriptorWait"
    /\ UNCHANGED <<envVars, exif, scripts, files, slot, probe, clock,
                   modelVars, domVars, modalVars, titleVars>>

\* metadata.images.map(...), lines 20-26
DescriptorRecords(entries) ==
    [i \in DOMAIN entries |->
        [filename |-> entries[i].filename, title |-> entries[i].title,
         dateObj |-> DateParse(entries[i].date, lenient)]]

\* loadMetadata, the descriptor was fetched and parsed (lines 17-29)
DescriptorLoaded ==
    /\ pc = "descriptorWait" /\ descriptor.status = "ok"
    /\ \E o \in sortOutcomes(DescriptorRecords(descriptor.entries), "date") :
          /\ images' = o.order
          /\ currentSort' = "date"
    /\ pc' = "loaded"
    /\ UNCHANGED <<envVars, requests, exif, scripts, files, slot, probe, clock,
                   domVars, modalVars, titleVars>>

\* loadMetadata, the fetch or the parse failed: the catch branch calls
\* loadImagesFromDirectory (lines 31-44), which issues no request
DescriptorFailed ==
    /\ pc = "descriptorWait" /\ descriptor.status # "ok"
    /\ images' = <<>>
    /\ LET r == renderGallery(<<>>, [loadingText |-> loadingText, loadingHidden |-> loadingHidden])
       IN  /\ cards' = r.cards
           /\ gallery' = r.gallery
           /\ loadingText' = r.loadingText
           /\ loadingHidden' = r.loadingHidden
    /\ rendered' = TRUE
    /\ pc' = "loaded"
    /\ UNCHANGED <<envVars, requests, exif, scripts, files, slot, probe, clock,
                   currentSort, listeners, modalVars, titleVars>>

\* the rest of init: renderGallery, then setupEventListeners unless
\* renderGallery threw
RenderAndListen(imgs) ==
    LET r == renderGallery(imgs, [loadingText |-> loadingText, loadingHidden |-> loadingHidden])
    IN  /\ cards' = r.cards
        /\ gallery' = r.gallery
        /\ loadingText' = r.loadingText
        /\ loadingHidden' = r.loadingHidden
        /\ rendered' = TRUE
        /\ listeners' = ~r.threw
        /\ pc' = IF r.threw THEN "initFailed" ELSE "done"

\* init after loadMetadata, lines 10-11
InitContinue1 ==
    /\ decl = 1 /\ pc = "loaded"
    /\ RenderAndListen(images)
    /\ UNCHANGED <<envVars, requests, exif, scripts, files, slot, probe, clock,
                   modelVars, modalVars, titleVars>>


(***************************************************************************)
(* Declaration 2 (lines 162-566): directory listing, probing, embedded     *)
(* tags.                                                                   *)
(***************************************************************************)
\* constructor, init, loadImages, loadImagesFromGitHub up to the fetch
\* (lines 163-198)
Start2 ==
    /\ decl = 2 /\ pc = "start"
    /\ requests' = Append(requests, "listing")
    /\ pc' = "listingWait"
    /\ UNCHANGED <<envVars, exif, scripts, files, slot, probe, clock,
                   modelVars, domVars, modalVars, titleVars>>

\* files.filter(...), lines 207-211
RECURSIVE FilterImages(_)
FilterImages(l) ==
    IF l = <<>> THEN l
    ELSE IF IsImageFile(l[Len(l)].name)
         THEN Append(FilterImages(SubSeq(l, 1, Len(l) - 1)), l[Len(l)])
         ELSE FilterImages(SubSeq(l, 1, Len(l) - 1))

\* the listing arrived: every image file starts loading (lines 204-214,
\* 228-269 up to img.src = src)
ListingOk(l) ==
    /\ pc = "listingWait"
    /\ files' = FilterImages(l)
    /\ slot' = [i \in DOMAIN FilterImages(l) |-> FreshSlot("loading")]
    /\ pc' = "loading"
    /\ UNCHANGED <<envVars, requests, exif, scripts, probe, clock,
                   modelVars, domVars, modalVars, titleVars>>

\* the fetch failed, the response was not ok or was no list: the catch branch
\* starts loadImagesFallback, whose loop probes the first candidate
\* (lines 220-222, 371-403)
ListingFailed ==
    /\ pc = "listingWait"
    /\ files' = [k \in DOMAIN commonPatterns |-> [name |-> commonPatterns[k], sha |-> <<>>]]
    /\ slot' = [k \in DOMAIN commonPatterns |->
                  IF k = 1 THEN FreshSlot("loading") ELSE FreshSlot("idle")]
    /\ probe' = 1
    /\ requests' = Append(requests, "probe")
    /\ pc' = "probing"
    /\ UNCHANGED <<envVars, exif, scripts, clock, modelVars, domVars, modalVars, titleVars>>

\* img.onerror: resolve(null) (lines 263-266) / reject, caught by the loop
\* (lines 402, 405-407)
ImgError(i) ==
    /\ Loading /\ i \in DOMAIN slot /\ slot[i].st = "loading"
    /\ slot' = [slot EXCEPT ![i].st = "dropped"]
    /\ UNCHANGED <<envVars, pc, requests, exif, scripts, files, probe, clock,
                   modelVars, domVars, modalVars, titleVars>>

\* the request of the image never completes: neither onload nor onerror is
\* ever run, and no timeout settles the promise (lines 234-269, 387-404)
ImgHang(i) ==
    /\ Loading /\ i \in DOMAIN slot /\ slot[i].st = "loading"
    /\ slot' = [slot EXCEPT ![i].st = "hung"]
    /\ UNCHANGED <<envVars, pc, requests, exif, scripts, files, probe, clock,
                   modelVars, domVars, modalVars, titleVars>>

\* img.onload while window.EXIF is undefined: extractImageMetadata awaits
\* loadExifLibrary, which injects a script element (lines 279-281, 345-360)
ImgLoadNoLib(i) ==
    /\ Loading /\ i \in DOMAIN slot /\ slot[i].st = "loading"
    /\ ~exif
    /\ scripts' = scripts + 1
    /\ slot' = [slot EXCEPT ![i].st = "waitLib", ![i].extract = "pending"]
    /\ UNCHANGED <<envVars, pc, requests, exif, files, probe, clock,
                   modelVars, domVars, modalVars, titleVars>>

\* img.onload while window.EXIF is defined: the executor calls getData
ImgLoadWithLib(i, outcome) ==
    /\ Loading /\ i \in DOMAIN slot /\ slot[i].st = "loading"
    /\ exif
    /\ RunExecutor(i, TRUE, outcome)
    /\ UNCHANGED <<envVars, pc, requests, exif, scripts, files, probe,
                   modelVars, domVars, modalVars, titleVars>>

\* script.onload: the library has defined window.EXIF; the awaiting
\* extraction goes on
ScriptLoad(i, outcome) ==
    /\ Loading /\ i \in DOMAIN slot /\ slot[i].st = "waitLib"
    /\ exif' = TRUE
    /\ RunExecutor(i, TRUE, outcome)
    /\ UNCHANGED <<envVars, pc, requests, scripts, files, probe,
                   modelVars, domVars, modalVars, titleVars>>

\* script.onerror: resolve() all the same (lines 355-358); the executor reads
\* window.EXIF again, which the script of another image may have defined
\* (when it is still undefined getData is not called and has no outcome)
ScriptError(i, outcome) ==
    /\ Loading /\ i \in DOMAIN slot /\ slot[i].st = "waitLib"
    /\ ~exif => outcome = "scheduled"
    /\ RunExecutor(i, exif, outcome)
    /\ UNCHANGED <<envVars, pc, requests, exif, scripts, files, probe,
                   modelVars, domVars, modalVars, titleVars>>

\* the getData callback runs to its end and resolves with the tags it read
ExifCallback(i, tags) ==
    /\ Loading /\ i \in DOMAIN slot /\ slot[i].st = "waitCb"
    /\ ResolveWith(i, TagMetadata(tags), "tags")
    /\ UNCHANGED <<envVars, pc, requests, exif, scripts, files, probe,
                   modelVars, domVars, modalVars, titleVars>>

\* the getData callback throws before resolve(metadata): nothing settles the
\* promise of extractImageMetadata
ExifCallbackThrows(i) ==
    /\ Loading /\ i \in DOMAIN slot /\ slot[i].st = "waitCb"
    /\ slot' = [slot EXCEPT ![i].st = "stuck", ![i].fault = "callbackThrew"]
    /\ UNCHANGED <<envVars, pc, requests, exif, scripts, files, probe, clock,
                   modelVars, domVars, modalVars, titleVars>>

\* a promise that counts as settled although its image never answers
SettledOrHung(i) == slot[i].st \in {"resolved", "dropped", "hung", "stuck"}
Settled(i) == slot[i].st \in {"resolved", "dropped"}
\* Promise.race in the place of Promise.all
AnySettled == slot = <<>> \/ \E i \in DOMAIN slot : Settled(i)
\* Promise.all(imagePromises), line 215
AllSettled == \A i \in DOMAIN slot : Settled(i)

\* the records of the settled loads, in the order of the descriptors
RECURSIVE RecordsUpTo(_)
RecordsUpTo(n) ==
    IF n = 0 THEN <<>>
    ELSE IF slot[n].st = "resolved" THEN Append(RecordsUpTo(n - 1), slot[n].rec)
    ELSE RecordsUpTo(n - 1)
\* the result of Promise.all without the filter of line 218
LoadedRecordsUnfiltered == [i \in DOMAIN slot |-> slot[i].rec]
\* this.images.filter(img => img !== null), line 218; validImages, line 410
LoadedRecords == RecordsUpTo(Len(slot))

\* every load of the listing has settled (lines 215-218)
FinishListing ==
    /\ pc = "loading"
    /\ AllSettled
    /\ images' = LoadedRecords
    /\ pc' = "loaded"
    /\ UNCHANGED <<envVars, requests, exif, scripts, files, slot, probe, clock,
                   currentSort, domVars, modalVars, titleVars>>

\* the probe of the current candidate has settled and the loop goes on to the
\* next candidate (lines 382-408)
NextProbe ==
    /\ pc = "probing"
    /\ Settled(probe)
    /\ probe < Len(files)
    /\ probe' = probe + 1
    /\ slot' = [slot EXCEPT ![probe + 1].st = "loading"]
    /\ requests' = Append(requests, "probe")
    /\ UNCHANGED <<envVars, pc, exif, scripts, files, clock,
                   modelVars, domVars, modalVars, titleVars>>

\* the probe of the last candidate has settled: this.images = validImages and
\* showInstructions when there is none (lines 410-414)
FinishFallback ==
    /\ pc = "probing"
    /\ Settled(probe)
    /\ probe = Len(files)
    /\ images' = LoadedRecords
    /\ gallery' = IF LoadedRecords = <<>> THEN "instructions" ELSE gallery
    /\ pc' = "loaded"
    /\ UNCHANGED <<envVars, requests, exif, scripts, files, slot, probe, clock,
                   currentSort, cards, loadingText, loadingHidden, rendered, listeners,
                   modalVars, titleVars>>

\* loadImages after loadImagesFromGitHub, then init after loadImages:
\* sortImages('date'), renderGallery, setupEventListeners (lines 171-172, 178)
InitContinue2 ==
    /\ decl = 2 /\ pc = "loaded"
    /\ \E o \in sortOutcomes(images, "date") :
          /\ images' = o.order
          /\ currentSort' = "date"
          /\ RenderAndListen(o.order)
    /\ UNCHANGED <<envVars, requests, exif, scripts, files, slot, probe, clock,
                   modalVars, titleVars>>

(***************************************************************************)
(* User events.  They are taken up once init has ended: before that no     *)
(* card and no handler exists and an event changes nothing.                *)
(***************************************************************************)
InitEnded == pc \in {"done", "initFailed"}

\* click on #sortDate / #sortName (lines 527-537): sortImages, then
\* renderGallery unless the sort threw
SortClick(sortType) ==
    /\ pc = "done" /\ listeners
    /\ currentSort' = sortType
    /\ \E o \in sortOutcomes(images, sortType) :
          /\ images' = o.order
          /\ IF o.threw
             THEN UNCHANGED <<cards, gallery, loadingText, loadingHidden>>
             ELSE LET r == renderGallery(o.order, [loadingText |-> loadingText,
                                                   loadingHidden |-> loadingHidden])
                  IN  /\ cards' = r.cards
                      /\ gallery' = r.gallery
                      /\ loadingText' = r.loadingText
                      /\ loadingHidden' = r.loadingHidden
    /\ lastEvent' = "sort"
    /\ UNCHANGED <<envVars, loadVars, rendered, listeners, modalDisplay, bodyOverflow, titleVars>>

\* click on the card of images[k] (line 474): openModal (lines 492-517);
\* formatDate throws after the modal is shown when the record's dateObj is null
CardClick(k) ==
    /\ InitEnded
    /\ k \in DOMAIN cards /\ k \in DOMAIN images
    /\ modalDisplay' = "block"
    /\ bodyOverflow' = IF formatDateThrows(images[k].dateObj) THEN bodyOverflow ELSE "hidden"
    /\ lastEvent' = "card"
    /\ UNCHANGED <<envVars, loadVars, modelVars, domVars, titleVars>>

\* closeModal, lines 519-523, run by a handler that setupEventListeners
\* installed; without the handler the event changes nothing
Dismiss ==
    IF listeners
    THEN modalDisplay' = "none" /\ bodyOverflow' = "auto"
    ELSE UNCHANGED <<modalDisplay, bodyOverflow>>

\* click on the .close control of the open modal (line 540)
CloseClick ==
    /\ InitEnded /\ modalDisplay = "block"
    /\ Dismiss
    /\ lastEvent' = "close"
    /\ UNCHANGED <<envVars, loadVars, modelVars, domVars, titleVars>>

\* click inside the open modal (lines 541-545): only a click whose target is
\* #modal itself closes it
ModalClick(target) ==
    /\ InitEnded /\ modalDisplay = "block"
    /\ IF target = "modal" THEN Dismiss ELSE UNCHANGED <<modalDisplay, bodyOverflow>>
    /\ lastEvent' = IF target = "modal" THEN "backdrop" ELSE "inner"
    /\ UNCHANGED <<envVars, loadVars, modelVars, domVars, titleVars>>

\* keydown on the document (lines 548-552)
KeyDown(key) ==
    /\ InitEnded
    /\ IF key = "Escape" THEN Dismiss ELSE UNCHANGED <<modalDisplay, bodyOverflow>>
    /\ lastEvent' = IF key = "Escape" THEN "escape" ELSE "key"
    /\ UNCHANGED <<envVars, loadVars, modelVars, domVars, titleVars>>

\* the steps of init and of its load pass: requests, their responses and the
\* continuations they resume
LoadStep ==
    \/ Start1
    \/ DescriptorLoaded
    \/ DescriptorFailed
    \/ InitContinue1
    \/ Start2
    \/ \E l \in Listings : ListingOk(l)
    \/ ListingFailed
    \/ \E i \in 1..Len(slot) : ImgError(i)
    \/ \E i \in 1..Len(slot) : ImgHang(i)
    \/ \E i \in 1..Len(slot) : ImgLoadNoLib(i)
    \/ \E i \in 1..Len(slot), o \in GetDataOutcomes : ImgLoadWithLib(i, o)
    \/ \E i \in 1..Len(slot), o \in GetDataOutcomes : ScriptLoad(i, o)
    \/ \E i \in 1..Len(slot), o \in GetDataOutcomes : ScriptError(i, o)
    \/ \E i \in 1..Len(slot), tags \in TagSets : ExifCallback(i, tags)
    \/ \E i \in 1..Len(slot) : ExifCallbackThrows(i)
    \/ FinishListing
    \/ NextProbe
    \/ FinishFallback
    \/ InitContinue2

\* the events of the user
UserStep ==
    \/ \E sortType \in {"date", "name"} : SortClick(sortType)
    \/ \E k \in 1..Len(cards) : CardClick(k)
    \/ CloseClick
    \/ \E target \in {"modal", "modalImg"} : ModalClick(target)
    \/ \E key \in {"Escape", "Enter"} : KeyDown(key)

Next == LoadStep \/ UserStep

Spec == Init /\ [][Next]_vars


(***************************************************************************)
(* generateTitle on its own: the argument is any string of at most MaxLen  *)
(* characters of TitleAlphabet, or the string "my_art-02".                 *)
(***************************************************************************)
TitleAlphabet == {"a", "b", "1", "-", "_", " "}
Str_my_art_02 == <<"m","y","_","a","r","t","-","0","2">>
Str_My_Art_02 == <<"M","y"," ","A","r","t"," ","#","0","2">>
TitleInputs ==
    UNION { [1..n -> TitleAlphabet] : n \in 0..MaxLen } \cup {Str_my_art_02}

InitTitleInput ==
    /\ decl = 2 /\ lenient = TRUE
    /\ descriptor = [status |-> "absent", entries |-> NoEntries]
    /\ pc = "start"
    /\ requests = <<>>
    /\ exif = FALSE
    /\ scripts = 0
    /\ files = SubSeq(FileUniverse, 1, 0)
    /\ slot = <<>>
    /\ probe = 0
    /\ clock = Now0
    /\ images = <<>>
    /\ currentSort = "date"
    /\ cards = <<>>
    /\ gallery = "empty"
    /\ loadingText = "loading"
    /\ loadingHidden = FALSE
    /\ rendered = FALSE
    /\ listeners = FALSE
    /\ modalDisplay = ""
    /\ bodyOverflow = ""
    /\ lastEvent = "none"
    /\ titleIn \in TitleInputs
    /\ titleOut = Undefined
    /\ titleCalls = 0

\* this.generateTitle(titleIn)
GenerateTitleCall ==
    /\ titleCalls < 2
    /\ titleOut' = generateTitle(titleIn)
    /\ titleCalls' = titleCalls + 1
    /\ UNCHANGED <<titleIn, galleryVars>>

NextTitle == GenerateTitleCall

SpecTitle == InitTitleInput /\ [][NextTitle]_vars


(***************************************************************************)
(* Properties.                                                             *)
(***************************************************************************)
PassEnded == pc \in {"loaded", "done", "initFailed"}
ListingPass == decl = 2 /\ probe = 0 /\ pc \notin {"start", "listingWait"}
FallbackPass == decl = 2 /\ probe > 0

\* C1: every record a load pass produces has a dateObj that is a valid,
\* non-null timestamp, whatever metadata extraction did (no tag reader, no
\* date tag, extraction throwing).
C1_DateAlwaysValid ==
    /\ \A i \in DOMAIN slot : slot[i].st = "resolved" => IsValidDate(slot[i].rec.dateObj)
    /\ \A k \in DOMAIN images : IsValidDate(images[k].dateObj)

\* C2: once init has installed the listeners, and after any sort clicks, the
\* collection and the cards are in the order of the active sort key: dates
\* non-increasing for 'date', titles non-decreasing for 'name'.
DateOrdered(a, b) ==
    IsValidDate(a.dateObj) /\ IsValidDate(b.dateObj) /\ a.dateObj.t >= b.dateObj.t
NameOrdered(a, b) ==
    IsString(a.title) /\ IsString(b.title) /\ localeCompare(a.title, b.title) <= 0
C2_OrderedByActiveKey ==
    pc = "done" =>
        /\ \A k \in 1..(Len(images) - 1) :
              IF currentSort = "date" THEN DateOrdered(images[k], images[k+1])
              ELSE NameOrdered(images[k], images[k+1])
        /\ cards = [k \in DOMAIN images |-> images[k].filename]

\* C3: the sources are tried in the order descriptor file, directory listing,
\* filename probing: with a well-formed descriptor file no listing request
\* and no probe is issued; with an absent or malformed one the listing
\* request is issued, and before any probe.
IssuedBefore(x, y) ==
    \A j \in DOMAIN requests : requests[j] = y => \E i \in 1..(j-1) : requests[i] = x
C3_FixedSourceOrder ==
    /\ descriptor.status = "ok" =>
          \A j \in DOMAIN requests : requests[j] \notin {"listing", "probe"}
    /\ (descriptor.status # "ok" /\ InitEnded) =>
          \E j \in DOMAIN requests : requests[j] = "listing"
    /\ IssuedBefore("listing", "probe")

\* C4: when no source yields a loadable image, the end of init shows the
\* 'no artwork' text, no card, and init has not thrown (the listeners are
\* installed).
C4_EmptyGalleryShown ==
    (InitEnded /\ images = <<>>) =>
        /\ loadingText = "noArtwork" /\ ~loadingHidden
        /\ cards = <<>> /\ gallery # "cards"
        /\ pc = "done" /\ listeners
C4_Witness ==
    /\ InitEnded /\ images = <<>>
    /\ FallbackPass
    /\ \A i \in DOMAIN slot : slot[i].st = "dropped"

\* C5: after a listing pass over N image descriptors the collection holds at
\* most N records, one for each descriptor whose image loaded and none for a
\* descriptor whose image failed, each under its descriptor's file name.
C5_AtMostOneRecordPerDescriptor ==
    (ListingPass /\ PassEnded) =>
        /\ Len(images) <= Len(files)
        /\ \A k \in DOMAIN images : \E i \in DOMAIN files : images[k].filename = files[i].name
        /\ \A i \in DOMAIN files :
              Cardinality({k \in DOMAIN images : images[k].filename = files[i].name})
                 = IF slot[i].st = "resolved" THEN 1 ELSE 0
C5_Witness ==
    /\ ListingPass /\ pc = "done"
    /\ \E i, j \in DOMAIN slot : slot[i].st = "dropped" /\ slot[j].st = "resolved"
    /\ Len(images) = Len(files) - 1

\* C6: extractImageMetadata never fails its caller: whenever the tag reader
\* fails (it throws, its callback throws or is never run) the extraction
\* still resolves with an empty metadata object and the image settles.
C6_ExtractionNeverFails ==
    \A i \in DOMAIN slot :
        slot[i].fault # "none" => slot[i].extract = "empty" /\ slot[i].st = "resolved"

\* C7: the modal is visible exactly when scrolling is locked; after a click
\* on the close control, a click on the backdrop or an Escape key press the
\* modal is closed and scrolling restored; a click inside the modal leaves
\* it open.
ModalVisible == modalDisplay = "block"
ScrollLocked == bodyOverflow = "hidden"
C7_ModalDismissal ==
    /\ ModalVisible <=> ScrollLocked
    /\ lastEvent \in {"close", "backdrop", "escape"} => ~ModalVisible /\ ~ScrollLocked
    /\ lastEvent = "inner" => ModalVisible

\* C8: every record of a load pass has a string title: the embedded title
\* when extraction found one, else the title generated from the file name
\* without its extension.
C8_TitleIsString ==
    \A i \in DOMAIN slot :
        slot[i].st = "resolved" =>
            /\ IsString(slot[i].rec.title)
            /\ slot[i].rec.title # <<>>
            /\ slot[i].extract # "tags" =>
                  slot[i].rec.title = generateTitle(StripExtension(files[i].name))

\* C9: generateTitle replaces every '-' and '_' by a space, upper-cases the
\* first character of each word and puts '#' before every maximal run of
\* digits ("my_art-02" gives "My Art #02"); a second call gives the same
\* result and no call changes the gallery's state.
IsSeparator(c) == c \in {"-", "_", " "}
RunStart(s, i) == IsDigit(s[i]) /\ (i = 1 \/ ~IsDigit(s[i-1]))
RunsUpTo(s, i) == Cardinality({ j \in 1..i : RunStart(s, j) })
WordStart(s, i) == ~IsSeparator(s[i]) /\ (i = 1 \/ IsSeparator(s[i-1]))
ExpectedChar(s, i) ==
    IF s[i] \in {"-", "_"} THEN " "
    ELSE IF WordStart(s, i) THEN ToUpperChar(s[i])
    ELSE s[i]
TitleAsSpecified(s, out) ==
    /\ Len(out) = Len(s) + RunsUpTo(s, Len(s))
    /\ \A i \in DOMAIN s :
          /\ out[i + RunsUpTo(s, i)] = ExpectedChar(s, i)
          /\ RunStart(s, i) => out[i + RunsUpTo(s, i) - 1] = "#"
C9_GenerateTitlePure ==
    /\ titleCalls > 0 => TitleAsSpecified(titleIn, titleOut)
    /\ (titleCalls > 0 /\ titleIn = Str_my_art_02) => titleOut = Str_My_Art_02
    /\ pc = "start" /\ images = <<>> /\ currentSort = "date" /\ cards = <<>>
    /\ ~rendered /\ ~listeners
C9_Witness ==
    titleCalls = 2 /\ titleIn = Str_my_art_02 /\ titleOut = Str_My_Art_02

\* C10: the collection of a pass is assigned, sorted and rendered only when
\* every image load and extraction the pass started has settled, in whatever
\* order they completed.
C10_RenderAfterAllSettled ==
    (decl = 2 /\ (PassEnded \/ rendered)) =>
        \A i \in DOMAIN slot : Settled(i)
\* the second image of the listing settled before the first one
C10_Witness ==
    /\ ListingPass /\ rendered /\ Len(slot) >= 2
    /\ slot[1].fault = "getDataThrew" /\ slot[2].fault = "getDataThrew"
    /\ slot[2].rec.dateObj.t < slot[1].rec.dateObj.t

\* C11: an image whose load or extraction never completes delays only its
\* own appearance: once nothing else of the pass is outstanding, every other
\* image of the pass whose load completed is rendered as a card.
NeverCompletes(i) ==
    \/ slot[i].st = "hung"
    \/ slot[i].st = "stuck" /\ slot[i].fault = "callbackDropped"
HasCard(j) == \E k \in DOMAIN cards : cards[k] = files[j].name
\* no request, response or continuation of init is left to run
Quiescent == ~ENABLED LoadStep
C11_OthersStillRendered ==
    \A i, j \in DOMAIN slot :
        (i # j /\ NeverCompletes(i) /\ slot[j].st = "resolved" /\ Quiescent) => HasCard(j)
\* C11 as amended: an image whose load or extraction never completes blocks
\* its whole pass: while it is outstanding the collection is not assigned and
\* no image of the pass is rendered, the loaded ones included.
C11_HungLoadBlocksPass ==
    \A i \in DOMAIN slot :
        NeverCompletes(i) =>
            /\ pc \in {"loading", "probing"}
            /\ images = <<>> /\ cards = <<>> /\ ~rendered /\ ~listeners
C11_Witness ==
    /\ Quiescent
    /\ \E i, j \in DOMAIN slot :
          slot[i].st = "hung" /\ slot[j].st = "resolved" /\ ~HasCard(j)

\* C12: the tag-reading library is loaded at most once per page: at most one
\* script element is ever injected, however the image onload callbacks and
\* the script's onload / onerror interleave.
C12_LibraryInjectedOnce == scripts <= 1

=============================================================================
